---- MODULE Spec2Model ----
(***************************************************************************)
(* venvception: resolution of nested tool groups into a flat tool set and  *)
(* the install commands issued for it.  The repository holds two entry     *)
(* points: the package (src/src/venvception/__init__.py, function          *)
(* venvception) and the script (src/main.py, class Venvception).  Both are *)
(* modelled; the variable `variant` says which one a run executes.         *)
(***************************************************************************)
EXTENDS Integers, Sequences, FiniteSets, TLC

(***************************************************************************)
(* Parsed TOML values.  A value carries its Python type in t: a string, a  *)
(* list, a dict (a function from its keys to values) or a number, which    *)
(* stands for every value that is none of the three.  Absent marks a key   *)
(* that the table does not hold.                                           *)
(***************************************************************************)
Str(s) == [t |-> "str", v |-> s]
Num == [t |-> "int", v |-> 0]
List(q) == [t |-> "list", v |-> q]
Dict(f) == [t |-> "dict", v |-> f]
Absent == [t |-> "absent", v |-> 0]

IsStr(value) == value.t = "str"
IsList(value) == value.t = "list"
IsDict(value) == value.t = "dict"
HasKey(value, key) == key \in DOMAIN value.v

(***************************************************************************)
(* Internal entries.  A Tool is a bare PackageSpec or a Package (name,     *)
(* dependencies); a group also holds Inherit entries.  kind tells a bare   *)
(* string "x" from the tuple ("x", ()), which Python keeps apart.          *)
(***************************************************************************)
PackageSpec(s) == [kind |-> "spec", name |-> s, deps |-> <<>>]
Package(n, d) == [kind |-> "package", name |-> n, deps |-> d]
Inherit(g) == [kind |-> "inherit", name |-> g, deps |-> <<>>]

(* ---------------- src/src/venvception/__init__.py: predicates ---------- *)
_is_package_spec(value) == IsStr(value)

_is_inherit(value) ==
    IsDict(value) /\ HasKey(value, "inherit") /\ IsStr(value.v["inherit"])

_is_toml_dependencies(value) ==
    IsList(value) /\ \A i \in DOMAIN value.v : _is_package_spec(value.v[i])

_is_toml_package(value) ==
    /\ IsDict(value)
    /\ HasKey(value, "name")
    /\ _is_package_spec(value.v["name"])
    /\ HasKey(value, "dependencies")
    /\ _is_toml_dependencies(value.v["dependencies"])

IsToolGroupEntry(entry) ==
    _is_package_spec(entry) \/ _is_toml_package(entry) \/ _is_inherit(entry)

(* mutant: only the first entry of the list is checked *)
_is_toml_tool_group_first_only(value) ==
    IsList(value) /\ (value.v = <<>> \/ IsToolGroupEntry(value.v[1]))

_is_toml_tool_group(value) ==
    IsList(value) /\ \A i \in DOMAIN value.v : IsToolGroupEntry(value.v[i])

(* tuple(entry["dependencies"]): the strings of the list, in its order *)
DepsTuple(value) == [i \in DOMAIN value.v |-> value.v[i].v]

(* one entry of _toml_to_group; the caller has validated the group *)
ToGroupEntry(entry) ==
    IF _is_inherit(entry) THEN Inherit(entry.v["inherit"].v)
    ELSE IF _is_toml_package(entry)
         THEN Package(entry.v["name"].v, DepsTuple(entry.v["dependencies"]))
         ELSE PackageSpec(entry.v)

(* mutant: inherit_allowed is not consulted *)
ToGroupNeverRaises(toml, inherit_allowed) == FALSE

(* _toml_to_group raises when an entry is an inherit and none is allowed *)
ToGroupRaises(toml, inherit_allowed) ==
    ~inherit_allowed /\ \E i \in DOMAIN toml.v : _is_inherit(toml.v[i])

_toml_to_group(toml) == [i \in DOMAIN toml.v |-> ToGroupEntry(toml.v[i])]

Range(q) == {q[i] : i \in DOMAIN q}

(* ---------------- src/main.py: predicates ------------------------------ *)
is_dependency(value) == IsStr(value)

is_dependencies(value) ==
    IsList(value) /\ \A i \in DOMAIN value.v : is_dependency(value.v[i])

is_package(value) ==
    /\ IsDict(value)
    /\ HasKey(value, "name")
    /\ IsStr(value.v["name"])
    /\ HasKey(value, "dependencies")
    /\ is_dependencies(value.v["dependencies"])

is_include(value) ==
    IsDict(value) /\ HasKey(value, "include") /\ IsStr(value.v["include"])

(***************************************************************************)
(* State.                                                                  *)
(***************************************************************************)
VARIABLES
    variant,           \* "pkg": __init__.py venvception(); "main": main.py
    config,            \* the [tool.venvception] table: tools, groups
    extras,            \* the requested group names (argv)
    subcommand,        \* main.py: install_group or remove_group
    installed_tools,   \* main.py: names `uv tool list` reports
    pc,                \* position of the run
    tools,             \* the accumulated tool set (tools / self.tools)
    groups,            \* pkg: name -> ToolGroup; main: name -> raw group
    processed_groups,  \* processed_groups / self.installed_groups
    next_extra,        \* pkg: index of the next requested name
    todo,              \* main: names of set(groups) not yet iterated
    stack,             \* active calls of _process_group / _accumulate_tools
    pending,           \* tools the install loop has not yet iterated
    issued,            \* commands handed to the external package tool
    err,               \* how the run failed, "none" while it has not
    log,               \* notices printed to stderr
    expanded,          \* history: groups whose entry loop was started
    first_seen,        \* history: tools in the order they joined the set
    run,               \* 1, or 2 once the program has been invoked again
    extras2,           \* the names requested by the second invocation
    first_result       \* history: how the first invocation ended

vars == <<variant, config, extras, subcommand, installed_tools, pc, tools,
          groups, processed_groups, next_extra, todo, stack, pending, issued,
          err, log, expanded, first_seen, run, extras2, first_result>>

inputs == <<variant, config, extras, subcommand, installed_tools, run,
            extras2, first_result>>


EmptyTable == [name \in {} |-> List(<<>>)]

RECURSIVE Dedup(_)
(* the elements of q in the order of their first occurrence *)
Dedup(q) ==
    IF q = <<>> THEN <<>>
    ELSE LET front == Dedup(SubSeq(q, 1, Len(q) - 1))
             last == q[Len(q)]
         IN IF last \in Range(front) THEN front ELSE Append(front, last)

Top == stack[Len(stack)]
Advanced == [stack EXCEPT ![Len(stack)].idx = @ + 1]
Frame(group_name) == [name |-> group_name, idx |-> 1]

(* an exception reaches the top level: main() prints ERROR and returns 1, *)
(* or (main.py) the interpreter prints the traceback and exits            *)
Raise(kind) ==
    /\ pc' = "error"
    /\ err' = kind
    /\ stack' = <<>>
    /\ log' = Append(log, <<"ERROR", kind>>)

(* mutant: a tool whose name is already in the set is not added *)
AddByName(tool) ==
    /\ tools' = IF \E t \in tools : t.name = tool.name THEN tools
                ELSE tools \cup {tool}
    /\ first_seen' = IF \E t \in tools : t.name = tool.name THEN first_seen
                     ELSE Append(first_seen, tool)

(* tools.add(tool) *)
Add(tool) ==
    /\ tools' = tools \cup {tool}
    /\ first_seen' = IF tool \in tools THEN first_seen
                     ELSE Append(first_seen, tool)

(* ---------------- src/src/venvception/__init__.py: the run ------------- *)

(* venvception(), lines 59-65: the tools section *)
LoadTools ==
    /\ variant = "pkg" /\ pc = "start"
    /\ IF config.tools = Absent
       THEN /\ pc' = "load_groups"
            /\ UNCHANGED <<tools, first_seen, err, log, stack>>
       ELSE IF ~_is_toml_tool_group(config.tools)
       THEN Raise("schema") /\ UNCHANGED <<tools, first_seen>>
       ELSE IF ToGroupRaises(config.tools, FALSE)
       THEN Raise("inherit not allowed") /\ UNCHANGED <<tools, first_seen>>
       ELSE /\ tools' = Range(_toml_to_group(config.tools))
            /\ first_seen' = Dedup(_toml_to_group(config.tools))
            /\ pc' = "load_groups"
            /\ UNCHANGED <<err, log, stack>>
    /\ UNCHANGED <<inputs, groups, processed_groups, next_extra, todo,
                   pending, issued, expanded>>

(* venvception(), lines 67-75: the groups section *)
LoadGroups ==
    /\ variant = "pkg" /\ pc = "load_groups"
    /\ IF config.groups = Absent
       THEN /\ pc' = "resolve"
            /\ UNCHANGED <<groups, err, log, stack>>
       ELSE IF ~IsDict(config.groups)
       THEN Raise("schema") /\ UNCHANGED groups
       ELSE IF \E name \in DOMAIN config.groups.v :
                  ~_is_toml_tool_group(config.groups.v[name])
       THEN Raise("schema") /\ UNCHANGED groups
       ELSE /\ groups' = [name \in DOMAIN config.groups.v |->
                             _toml_to_group(config.groups.v[name])]
            /\ pc' = "resolve"
            /\ UNCHANGED <<err, log, stack>>
    /\ UNCHANGED <<inputs, tools, first_seen, processed_groups, next_extra,
                   todo, pending, issued, expanded>>

(* mutant: processed_groups is not consulted *)
EnterGroupAlways(group_name, callers) ==
    IF group_name \notin DOMAIN groups
    THEN Raise("reference") /\ UNCHANGED <<processed_groups, expanded>>
    ELSE /\ processed_groups' = processed_groups \cup {group_name}
         /\ stack' = Append(callers, Frame(group_name))
         /\ expanded' = Append(expanded, group_name)
         /\ UNCHANGED <<pc, err, log>>

(* mutant: a group that was already processed is an error *)
EnterGroupRaisesOnRepeat(group_name, callers) ==
    IF group_name \notin DOMAIN groups
    THEN Raise("reference") /\ UNCHANGED <<processed_groups, expanded>>
    ELSE IF group_name \in processed_groups
    THEN Raise("already processed") /\ UNCHANGED <<processed_groups, expanded>>
    ELSE /\ processed_groups' = processed_groups \cup {group_name}
         /\ stack' = Append(callers, Frame(group_name))
         /\ expanded' = Append(expanded, group_name)
         /\ UNCHANGED <<pc, err, log>>

(* _process_group, lines 181-189, called with `callers` below it *)
EnterGroup(group_name, callers) ==
    IF group_name \notin DOMAIN groups
    THEN Raise("reference") /\ UNCHANGED <<processed_groups, expanded>>
    ELSE IF group_name \in processed_groups
    THEN /\ log' = Append(log, <<"already processed", group_name>>)
         /\ stack' = callers
         /\ UNCHANGED <<pc, err, processed_groups, expanded>>
    ELSE /\ processed_groups' = processed_groups \cup {group_name}
         /\ stack' = Append(callers, Frame(group_name))
         /\ expanded' = Append(expanded, group_name)
         /\ UNCHANGED <<pc, err, log>>

(* venvception(), lines 78-79: the next requested name *)
CallProcessGroup ==
    /\ variant = "pkg" /\ pc = "resolve" /\ stack = <<>>
    /\ next_extra <= Len(extras)
    /\ EnterGroup(extras[next_extra], <<>>)
    /\ next_extra' = next_extra + 1
    /\ UNCHANGED <<inputs, tools, first_seen, groups, todo, pending, issued>>

(* _process_group, lines 192-198: one entry of the group on top *)
ProcessEntry ==
    /\ variant = "pkg" /\ pc = "resolve" /\ stack # <<>>
    /\ Top.idx <= Len(groups[Top.name])
    /\ LET tool == groups[Top.name][Top.idx]
       IN IF tool.kind = "inherit"
          THEN /\ IF tool.name \notin DOMAIN groups
                  THEN Raise("reference")
                       /\ UNCHANGED <<processed_groups, expanded>>
                  ELSE EnterGroup(tool.name, Advanced)
               /\ UNCHANGED <<tools, first_seen>>
          ELSE /\ Add(tool)
               /\ stack' = Advanced
               /\ UNCHANGED <<pc, err, log, processed_groups, expanded>>
    /\ UNCHANGED <<inputs, groups, next_extra, todo, pending, issued>>

(* _process_group, line 200 *)
ReturnGroup ==
    /\ variant = "pkg" /\ pc = "resolve" /\ stack # <<>>
    /\ Top.idx > Len(groups[Top.name])
    /\ stack' = SubSeq(stack, 1, Len(stack) - 1)
    /\ UNCHANGED <<inputs, pc, tools, first_seen, groups, processed_groups,
                   next_extra, todo, pending, issued, err, log, expanded>>

(* the command line of lines 82-89 *)
UvTool(tool) == [verb |-> "tool", name |-> tool.name, with |-> tool.deps]

(* venvception(), line 81: the loop over the set begins *)
BeginRunTools ==
    /\ variant = "pkg" /\ pc = "resolve" /\ stack = <<>>
    /\ next_extra > Len(extras)
    /\ pending' = tools
    /\ pc' = IF tools = {} THEN "done" ELSE "install"
    /\ UNCHANGED <<inputs, tools, first_seen, groups, processed_groups,
                   next_extra, todo, stack, issued, err, log, expanded>>

(* venvception(), lines 81-95: a set is iterated in no order of its own *)
RunTool ==
    /\ variant = "pkg" /\ pc = "install"
    /\ \E tool \in pending :
          /\ issued' = Append(issued, UvTool(tool))
          /\ pending' = pending \ {tool}
          /\ pc' = IF pending = {tool} THEN "done" ELSE "install"
    /\ UNCHANGED <<inputs, tools, first_seen, groups, processed_groups,
                   next_extra, todo, stack, err, log, expanded>>

NextPkg ==
    \/ LoadTools
    \/ LoadGroups
    \/ CallProcessGroup
    \/ ProcessEntry
    \/ ReturnGroup
    \/ BeginRunTools
    \/ RunTool


(* ---------------- src/main.py: the run --------------------------------- *)

(* lines 218 and 221: no GROUP on the command line means ["default"] *)
Requested == IF extras = <<>> THEN <<"default">> ELSE extras

(* lines 199-202 and install_group/remove_group's set(groups): the        *)
(* groups table with the tools list as its group "default"                *)
Setup ==
    /\ variant = "main" /\ pc = "start"
    /\ LET table == IF config.groups = Absent THEN Dict(EmptyTable)
                    ELSE config.groups
           default == IF config.tools = Absent THEN List(<<>>)
                      ELSE config.tools
       IN IF ~IsDict(table)
          THEN \* groups["default"] = ... on a value that is no dict
               Raise("crash") /\ UNCHANGED <<groups, todo>>
          ELSE /\ groups' = [name \in DOMAIN table.v \cup {"default"} |->
                                IF name = "default" THEN default
                                ELSE table.v[name]]
               /\ todo' = Range(Requested)
               /\ pc' = "resolve"
               /\ UNCHANGED <<err, log, stack>>
    /\ UNCHANGED <<inputs, tools, first_seen, processed_groups, next_extra,
                   pending, issued, expanded>>

(* _accumulate_tools, lines 123-130, called with `callers` below it *)
EnterAccumulate(group, callers) ==
    IF group \notin DOMAIN groups
    THEN /\ log' = Append(log, <<"not found", group>>)
         /\ stack' = callers
         /\ UNCHANGED <<pc, err, processed_groups, expanded>>
    ELSE IF group \in processed_groups
    THEN /\ log' = Append(log, <<"already installed", group>>)
         /\ stack' = callers
         /\ UNCHANGED <<pc, err, processed_groups, expanded>>
    ELSE /\ processed_groups' = processed_groups \cup {group}
         /\ stack' = Append(callers, Frame(group))
         /\ expanded' = Append(expanded, group)
         /\ UNCHANGED <<pc, err, log>>

(* install_group/remove_group, lines 105-106 and 112-113: a set is        *)
(* iterated in no order of its own                                        *)
CallAccumulate ==
    /\ variant = "main" /\ pc = "resolve" /\ stack = <<>>
    /\ \E group \in todo :
          /\ todo' = todo \ {group}
          /\ EnterAccumulate(group, <<>>)
    /\ UNCHANGED <<inputs, tools, first_seen, groups, next_extra, pending,
                   issued>>

(* _accumulate_tools, lines 135-138: the tuple added for a tool entry *)
AccumulatedTool(entry) ==
    IF is_package(entry)
    THEN Package(entry.v["name"].v, DepsTuple(entry.v["dependencies"]))
    ELSE Package(entry.v, <<>>)

(* _accumulate_tools, lines 132-140: one entry of the group on top *)
AccumulateEntry ==
    /\ variant = "main" /\ pc = "resolve" /\ stack # <<>>
    /\ LET group == groups[Top.name]
       IN IF ~IsList(group)
          THEN \* for entry in <a number>
               /\ Raise("crash")
               /\ UNCHANGED <<tools, first_seen, processed_groups, expanded>>
          ELSE /\ Top.idx <= Len(group.v)
               /\ LET entry == group.v[Top.idx]
                  IN IF is_include(entry)
                     THEN /\ EnterAccumulate(entry.v["include"].v, Advanced)
                          /\ UNCHANGED <<tools, first_seen>>
                     ELSE IF is_package(entry) \/ is_dependency(entry)
                     THEN /\ Add(AccumulatedTool(entry))
                          /\ stack' = Advanced
                          /\ UNCHANGED <<pc, err, log, processed_groups,
                                         expanded>>
                     ELSE /\ log' = Append(log, <<"not valid", Top.name>>)
                          /\ stack' = Advanced
                          /\ UNCHANGED <<pc, err, tools, first_seen,
                                         processed_groups, expanded>>
    /\ UNCHANGED <<inputs, groups, next_extra, todo, pending, issued>>

(* _accumulate_tools: the loop of line 132 ends *)
ReturnAccumulate ==
    /\ variant = "main" /\ pc = "resolve" /\ stack # <<>>
    /\ IsList(groups[Top.name])
    /\ Top.idx > Len(groups[Top.name].v)
    /\ stack' = SubSeq(stack, 1, Len(stack) - 1)
    /\ UNCHANGED <<inputs, pc, tools, first_seen, groups, processed_groups,
                   next_extra, todo, pending, issued, err, log, expanded>>

(* install_group line 108 / remove_group line 115: the loop begins *)
BeginInstallGroup ==
    /\ variant = "main" /\ pc = "resolve" /\ stack = <<>> /\ todo = {}
    /\ pending' = tools
    /\ pc' = IF tools = {} THEN "done" ELSE "install"
    /\ UNCHANGED <<inputs, tools, first_seen, groups, processed_groups,
                   next_extra, todo, stack, issued, err, log, expanded>>

(* the command lines of install (line 75) and remove (line 102) *)
UvInstall(tool) == [verb |-> "install", name |-> tool.name, with |-> tool.deps]
UvUninstall(tool) == [verb |-> "uninstall", name |-> tool.name, with |-> <<>>]

(* install_group lines 108-109 with install, lines 70-75;                 *)
(* remove_group lines 115-116 with remove, lines 97-102                   *)
InstallOrRemove ==
    /\ variant = "main" /\ pc = "install"
    /\ \E tool \in pending :
          /\ pending' = pending \ {tool}
          /\ pc' = IF pending = {tool} THEN "done" ELSE "install"
          /\ IF subcommand = "install_group"
             THEN IF tool.name \in installed_tools
                  THEN /\ log' = Append(log, <<"tool already installed", tool.name>>)
                       /\ UNCHANGED issued
                  ELSE /\ issued' = Append(issued, UvInstall(tool))
                       /\ UNCHANGED log
             ELSE IF tool.name \notin installed_tools
                  THEN /\ log' = Append(log, <<"tool not installed", tool.name>>)
                       /\ UNCHANGED issued
                  ELSE /\ issued' = Append(issued, UvUninstall(tool))
                       /\ UNCHANGED log
    /\ UNCHANGED <<inputs, tools, first_seen, groups, processed_groups,
                   next_extra, todo, stack, err, expanded>>

NextMain ==
    \/ Setup
    \/ CallAccumulate
    \/ AccumulateEntry
    \/ ReturnAccumulate
    \/ BeginInstallGroup
    \/ InstallOrRemove

Next == NextPkg \/ NextMain

(***************************************************************************)
(* The program is invoked a second time on the same configuration, with    *)
(* extras2 for its command line; uv has done what the first run told it.   *)
(***************************************************************************)
Finished == pc \in {"done", "error"}

InstalledAfter ==
    LET names == {issued[i].name : i \in DOMAIN issued}
    IN IF variant = "pkg" THEN installed_tools
       ELSE IF subcommand = "install_group" THEN installed_tools \cup names
       ELSE installed_tools \ names

Rerun ==
    /\ run = 1 /\ Finished
    /\ run' = 2
    /\ first_result' = [err |-> err, tools |-> tools]
    /\ extras' = extras2
    /\ extras2' = extras
    /\ installed_tools' = InstalledAfter
    /\ pc' = "start"
    /\ tools' = {}
    /\ groups' = EmptyTable
    /\ processed_groups' = {}
    /\ next_extra' = 1
    /\ todo' = {}
    /\ stack' = <<>>
    /\ pending' = {}
    /\ issued' = <<>>
    /\ err' = "none"
    /\ log' = <<>>
    /\ expanded' = <<>>
    /\ first_seen' = <<>>
    /\ UNCHANGED <<variant, config, subcommand>>

NextTwice == Next \/ Rerun

(***************************************************************************)
(* Inputs.  A run starts from a configuration, a command line and, for     *)
(* main.py, the tools uv reports as installed.                             *)
(***************************************************************************)
MaxLen == 2
MaxReq == 2

Keys == {"a", "b"}
Missing == "zz"

IncludeKey(v) == IF v = "pkg" THEN "inherit" ELSE "include"
Ref(v, g) == Dict([key \in {IncludeKey(v)} |-> Str(g)])
RawPackage(n, d) == Dict([name |-> Str(n), dependencies |-> List(d)])
BadMap == Dict([foo |-> Str("a")])
BadDeps == Dict([name |-> Str("x"), dependencies |-> List(<<Str("d"), Num>>)])

SeqsUpTo(S, n) == UNION {[1..k -> S] : k \in 0..n}
Lists(S, n) == {List(q) : q \in SeqsUpTo(S, n)}
Tables(K, G) == {Dict(f) : f \in [K -> G]}

Runs(v, C) == {<<v, c>> : c \in C}

Start(VC, X, SC, IT) ==
    /\ \E vc \in VC : variant = vc[1] /\ config = vc[2]
    /\ \E pair \in X : extras = pair[1] /\ extras2 = pair[2]
    /\ subcommand \in IF variant = "pkg" THEN {"install"} ELSE SC
    /\ installed_tools \in IF variant = "pkg" THEN {{}} ELSE IT
    /\ run = 1
    /\ first_result = [err |-> "none", tools |-> {}]
    /\ pc = "start"
    /\ tools = {}
    /\ groups = EmptyTable
    /\ processed_groups = {}
    /\ next_extra = 1
    /\ todo = {}
    /\ stack = <<>>
    /\ pending = {}
    /\ issued = <<>>
    /\ err = "none"
    /\ log = <<>>
    /\ expanded = <<>>
    /\ first_seen = <<>>

Once(S) == {<<q, <<>>>> : q \in S}

(* Spec: every kind of entry and of section, both entry points *)
Entries(v) == {Str("x"), Ref(v, "a"), Ref(v, Missing), BadMap}

Configs(v) ==
    [tools : {Absent, Num, List(<<Str("y")>>)},
     groups : {Absent, Num} \cup Tables(Keys, Lists(Entries(v), MaxLen))]

Init == Start(Runs("pkg", Configs("pkg")) \cup Runs("main", Configs("main")),
              Once(SeqsUpTo(Keys \cup {Missing}, MaxReq)),
              {"install_group", "remove_group"}, {{}, {"x"}})

Spec == Init /\ [][Next]_vars


(***************************************************************************)
(* What the specification says of a configuration, stated on the raw       *)
(* values and independently of the traversal.                              *)
(***************************************************************************)
IsRef(v, entry) ==
    IsDict(entry) /\ HasKey(entry, IncludeKey(v))
    /\ IsStr(entry.v[IncludeKey(v)])

IsRawPackage(entry) ==
    /\ IsDict(entry)
    /\ {"name", "dependencies"} \subseteq DOMAIN entry.v
    /\ IsStr(entry.v["name"])
    /\ IsList(entry.v["dependencies"])
    /\ \A i \in DOMAIN entry.v["dependencies"].v :
          IsStr(entry.v["dependencies"].v[i])

SchemaEntry(v, entry) == IsStr(entry) \/ IsRawPackage(entry) \/ IsRef(v, entry)

SchemaGroup(v, value) ==
    IsList(value) /\ \A i \in DOMAIN value.v : SchemaEntry(v, value.v[i])

SchemaGroups(v, value) ==
    IsDict(value) /\ \A name \in DOMAIN value.v : SchemaGroup(v, value.v[name])

ToolsSectionOk == config.tools = Absent \/ SchemaGroup(variant, config.tools)
GroupsSectionOk == config.groups = Absent \/ SchemaGroups(variant, config.groups)

(* the groups a request can name: the keyed table and, in main.py, the    *)
(* group "default" made of the top-level list                             *)
RawTable ==
    LET keyed == IF IsDict(config.groups) THEN config.groups.v ELSE EmptyTable
        default == IF config.tools = Absent THEN List(<<>>) ELSE config.tools
    IN IF variant = "pkg" THEN keyed
       ELSE [name \in DOMAIN keyed \cup {"default"} |->
                IF name = "default" THEN default ELSE keyed[name]]

RefTarget(entry) == entry.v[IncludeKey(variant)].v

RefsOf(value) ==
    IF IsList(value)
    THEN {RefTarget(value.v[i]) :
             i \in {j \in DOMAIN value.v : IsRef(variant, value.v[j])}}
    ELSE {}

(* a tool entry as a member of the resolved set: main.py keeps a bare     *)
(* string as the tuple (string, ())                                       *)
MemberOf(entry) ==
    IF IsRawPackage(entry)
    THEN Package(entry.v["name"].v,
                 [i \in DOMAIN entry.v["dependencies"].v |->
                     entry.v["dependencies"].v[i].v])
    ELSE IF variant = "pkg" THEN PackageSpec(entry.v)
    ELSE Package(entry.v, <<>>)

DirectTools(value) ==
    IF IsList(value)
    THEN {MemberOf(value.v[i]) :
             i \in {j \in DOMAIN value.v :
                       IsStr(value.v[j]) \/ IsRawPackage(value.v[j])}}
    ELSE {}

RECURSIVE ReachFrom(_)
(* the existing groups reachable from the names in S through includes *)
ReachFrom(S) ==
    LET here == S \cap DOMAIN RawTable
        more == here \cup (UNION {RefsOf(RawTable[g]) : g \in here}
                              \cap DOMAIN RawTable)
    IN IF more = here THEN here ELSE ReachFrom(more)

SeedTools == DirectTools(config.tools)

RequestedNames == IF variant = "pkg" THEN Range(extras) ELSE Range(Requested)

Resolved == pc \in {"install", "done"}

UnknownMet ==
    \/ err = "reference"
    \/ \E i \in DOMAIN log : log[i][1] = "not found"

HasDanglingInclude ==
    /\ IsDict(config.groups)
    /\ \E name \in DOMAIN config.groups.v :
          RefsOf(config.groups.v[name]) \ DOMAIN RawTable # {}

(***************************************************************************)
(* C1.  Once resolution has met a group name that is not a key of the      *)
(* groups table, no command has been issued to the package tool and the    *)
(* run ends in a reference error.                                          *)
(***************************************************************************)
C1_UnknownGroupAborts ==
    (ToolsSectionOk /\ GroupsSectionOk /\ UnknownMet)
    => issued = <<>> /\ (Finished => err = "reference")

(***************************************************************************)
(* C3.  When every requested name exists and resolution has completed,     *)
(* the tool set is the seed tools (the top-level list) united with the     *)
(* direct tools of every group reachable from the requested names.         *)
(***************************************************************************)
C3_SeedAndReachable ==
    (/\ ToolsSectionOk /\ GroupsSectionOk
     /\ RequestedNames \subseteq DOMAIN RawTable
     /\ Resolved)
    => tools = SeedTools
                 \cup UNION {DirectTools(RawTable[g]) :
                                g \in ReachFrom(RequestedNames)}

(***************************************************************************)
(* C6.  A configuration in which a group holds an include of a name that   *)
(* is not a key of the groups table never completes: every run on it ends  *)
(* in an error, whatever names are requested.                              *)
(***************************************************************************)
C6_DanglingIncludeFails ==
    (ToolsSectionOk /\ GroupsSectionOk /\ HasDanglingInclude /\ Finished)
    => pc = "error"

(***************************************************************************)
(* C9.  With a tools or groups section that is present and structurally    *)
(* invalid, no tool of a group is ever collected, no command is ever       *)
(* issued and the run ends in an error; with both sections absent the run  *)
(* completes with an empty tool set.                                       *)
(***************************************************************************)
C9_InvalidSectionAborts ==
    /\ ~(ToolsSectionOk /\ GroupsSectionOk)
       => /\ tools \subseteq SeedTools
          /\ issued = <<>>
          /\ Finished => pc = "error"
    /\ (config.tools = Absent /\ config.groups = Absent /\ Finished)
       => pc = "done" /\ tools = {} /\ issued = <<>>

(***************************************************************************)
(* C10.  The commands are issued one per member of the resolved set in     *)
(* the order in which the traversal first met the members (no member is    *)
(* skipped here: nothing is installed beforehand).                         *)
(***************************************************************************)
CommandFor(tool) == IF variant = "pkg" THEN UvTool(tool) ELSE UvInstall(tool)

C10_FirstEncounteredOrder ==
    (subcommand \in {"install", "install_group"} /\ installed_tools = {})
    => /\ Len(issued) <= Len(first_seen)
       /\ \A i \in DOMAIN issued : issued[i] = CommandFor(first_seen[i])
       /\ pc = "done" => Len(issued) = Len(first_seen)


(***************************************************************************)
(* SpecValidate: the package entry point on configurations of every        *)
(* shape the validators tell apart.                                        *)
(***************************************************************************)
NoName == Dict([dependencies |-> List(<<Str("d")>>)])
NoDeps == Dict([name |-> Str("x")])
NumName == Dict([name |-> Num, dependencies |-> List(<<>>)])
NumDeps == Dict([name |-> Str("x"), dependencies |-> Num])
NumRef == Dict([inherit |-> Num])
OddEntries == {Num, NoName, NoDeps, NumName, NumDeps, NumRef, List(<<>>)}

ValidateEntries ==
    {Str("x"), RawPackage("x", <<Str("d")>>), Ref("pkg", "a"), BadMap, BadDeps}

(* a table whose group b is one odd entry after a valid one, or no list *)
OddTables ==
    {Dict([a |-> List(<<Str("x")>>), b |-> List(<<Str("x"), odd>>)]) :
        odd \in OddEntries}
    \cup {Dict([a |-> List(<<Str("x")>>), b |-> Num])}

ValidateConfigs(v) ==
    [tools : {Absent, Num, List(<<Str("y")>>), List(<<Ref(v, "a")>>),
              List(<<Str("y"), Ref(v, "b")>>), List(<<BadMap, Ref(v, "a")>>)},
     groups : {Absent, Num} \cup OddTables
              \cup Tables(Keys, Lists(ValidateEntries, MaxLen))]

InitValidate ==
    Start(Runs("pkg", ValidateConfigs("pkg")), Once({<<>>, <<"a">>}), {"install"}, {{}})

SpecValidate == InitValidate /\ [][NextPkg]_vars

IncludeInTools ==
    IsList(config.tools)
    /\ \E i \in DOMAIN config.tools.v : IsRef(variant, config.tools.v[i])

ToolsAccepted == ToolsSectionOk /\ ~IncludeInTools

GroupsLoaded == pc \notin {"start", "load_groups"}

(***************************************************************************)
(* C7.  Once the groups table has been validated, it has been rejected     *)
(* with a schema error exactly if some group is no list or some entry of   *)
(* some group is neither a string, nor a map with a string name and a      *)
(* dependencies list of strings, nor a map with a string under the         *)
(* include key; an accepted table is not rejected later.                   *)
(***************************************************************************)
C7_ValidationTotal ==
    (ToolsAccepted /\ IsDict(config.groups) /\ GroupsLoaded)
    => /\ err = "schema" <=> ~SchemaGroups(variant, config.groups)
       /\ err # "schema" => DOMAIN groups = DOMAIN config.groups.v

C7_Witness ==
    /\ ToolsAccepted /\ IsDict(config.groups)
    /\ pc = "error" /\ err = "schema"
    /\ SchemaGroup(variant, config.groups.v["a"])
    /\ config.groups.v["b"] = List(<<RawPackage("x", <<Str("d")>>), BadDeps>>)

(***************************************************************************)
(* C8.  A tools list that holds an include entry ends the run in a         *)
(* validation error with no group loaded or expanded and no command        *)
(* issued; an include entry of a group of an accepted table is kept as an  *)
(* Inherit marker at its position.                                         *)
(***************************************************************************)
C8_IncludeOnlyInGroups ==
    /\ (IncludeInTools /\ pc # "start")
       => /\ pc = "error"
          /\ err \in {"inherit not allowed", "schema"}
          /\ ToolsSectionOk => err = "inherit not allowed"
          /\ DOMAIN groups = {} /\ expanded = <<>> /\ issued = <<>>
    /\ (ToolsAccepted /\ IsDict(config.groups) /\ GroupsLoaded
        /\ err # "schema")
       => \A name \in DOMAIN config.groups.v :
             \A i \in DOMAIN config.groups.v[name].v :
                IsRef(variant, config.groups.v[name].v[i])
                => groups[name][i]
                     = Inherit(RefTarget(config.groups.v[name].v[i]))

C8_Witness ==
    /\ config.tools = List(<<Ref("pkg", "a")>>)
    /\ IsDict(config.groups) /\ SchemaGroups(variant, config.groups)
    /\ Ref("pkg", "a") \in Range(config.groups.v["b"].v)
    /\ pc = "error" /\ err = "inherit not allowed"


(***************************************************************************)
(* Measures of a traversal, for the claims below.                          *)
(***************************************************************************)
SumOver(S, f(_)) ==
    LET sum[T \in SUBSET S] ==
            IF T = {} THEN 0
            ELSE LET one == CHOOSE e \in T : TRUE
                 IN f(one) + sum[T \ {one}]
    IN sum[S]

NoRepeat(q) == \A i, j \in DOMAIN q : q[i] = q[j] => i = j

IsSkip(line) == line[1] \in {"already processed", "already installed"}
SkipCount == Cardinality({i \in DOMAIN log : IsSkip(log[i])})

RefCount(value) ==
    IF IsList(value)
    THEN Cardinality({j \in DOMAIN value.v : IsRef(variant, value.v[j])})
    ELSE 0

(* how many times the traversal has to look a group name up *)
RequestCount ==
    IF variant = "pkg" THEN Len(extras) ELSE Cardinality(Range(Requested))
ExpandedRefs(g) == RefCount(RawTable[g])
Encounters == RequestCount + SumOver(Range(expanded), ExpandedRefs)

GroupLen(g) ==
    IF variant = "pkg" THEN Len(groups[g])
    ELSE IF IsList(groups[g]) THEN Len(groups[g].v) ELSE 0

Rank(p) ==
    CASE p = "start" -> 4
      [] p = "load_groups" -> 3
      [] p = "resolve" -> 2
      [] p = "install" -> 1
      [] OTHER -> 0

UnprocessedWork(g) == GroupLen(g) + 2
FrameWork(i) == GroupLen(stack[i].name) - stack[i].idx + 2

(* the work left in the current phase of the run *)
Remaining ==
    CASE pc = "resolve" ->
             (IF variant = "pkg" THEN Len(extras) - next_extra + 1
              ELSE Cardinality(todo))
             + SumOver(DOMAIN groups \ processed_groups, UnprocessedWork)
             + SumOver(DOMAIN stack, FrameWork)
      [] pc = "install" -> Cardinality(pending)
      [] OTHER -> 0

Decreases ==
    \/ Rank(pc') < Rank(pc)
    \/ Rank(pc') = Rank(pc) /\ Remaining' < Remaining /\ Remaining' >= 0

(***************************************************************************)
(* SpecResolve: both entry points on valid tables whose groups include     *)
(* one another, themselves, or form a ring of three.                       *)
(***************************************************************************)
TablesAB(v, n) ==
    {Dict([a |-> ga, b |-> gb]) :
        ga \in Lists({Str("x"), Ref(v, "a"), Ref(v, "b")}, n),
        gb \in Lists({Str("w"), Ref(v, "a"), Ref(v, "b")}, n)}

RingTables(v) ==
    {Dict([a |-> List(<<Ref(v, "b"), Str("x")>>),
           b |-> List(<<Ref(v, "c"), Str("w")>>),
           c |-> List(<<Ref(v, first), Str("u")>>)]) : first \in {"a", "b", "c"}}

ResolveConfigs(v) ==
    [tools : {List(<<Str("y")>>)},
     groups : TablesAB(v, MaxLen) \cup RingTables(v)]

InitResolve ==
    Start(Runs("pkg", ResolveConfigs("pkg")) \cup Runs("main", ResolveConfigs("main")), Once(SeqsUpTo(Keys, MaxReq)),
          {"install_group"}, {{}})

SpecResolve == InitResolve /\ [][Next]_vars

ExpandedOnce ==
    /\ NoRepeat(expanded)
    /\ Len(stack) <= Cardinality(DOMAIN groups)
    /\ Resolved
       => /\ Range(expanded) = ReachFrom(RequestedNames)
          /\ SkipCount + Len(expanded) = Encounters
          /\ \A g \in Range(expanded) : DirectTools(RawTable[g]) \subseteq tools

(***************************************************************************)
(* C2.  On a table with include cycles the run terminates: every step      *)
(* moves to a later phase or lowers the work left in the phase, which is   *)
(* never negative.  No group is expanded twice; when resolution is done,   *)
(* every group reachable from the request is expanded, every other         *)
(* look-up of a name has printed a skip notice, and the entries after a    *)
(* skipped include have been processed.                                    *)
(***************************************************************************)
C2_CyclesExpandOnce == []ExpandedOnce /\ [][Decreases]_vars

C2_Witness ==
    /\ Resolved
    /\ "b" \in RefsOf(RawTable["a"]) /\ "a" \in RefsOf(RawTable["b"])
    /\ expanded = <<"a", "b">>
    /\ SkipCount >= 1
    /\ DirectTools(RawTable["b"]) # {}

(***************************************************************************)
(* SpecIdentity: both entry points on tables of same-named packages.       *)
(***************************************************************************)
IdentityEntries(v) ==
    {Str("x"), RawPackage("x", <<Str("d")>>), RawPackage("x", <<Str("e")>>),
     Ref(v, "b")}

IdentityConfigs(v) ==
    [tools : {Absent, List(<<RawPackage("x", <<Str("d")>>)>>)},
     groups : Tables(Keys, Lists(IdentityEntries(v), MaxLen))]

InitIdentity ==
    Start(Runs("pkg", IdentityConfigs("pkg")) \cup Runs("main", IdentityConfigs("main")), Once({<<"a">>, <<"a", "b">>}),
          {"install_group"}, {{}})

SpecIdentity == InitIdentity /\ [][Next]_vars

(* the raw groups whose entries the traversal has gone through *)
MetValues ==
    {RawTable[g] : g \in Range(expanded)}
    \cup (IF variant = "pkg" /\ IsList(config.tools) THEN {config.tools}
          ELSE {})

MetMembers == UNION {DirectTools(value) : value \in MetValues}

PackagesNamed(S, n) == {t \in S : t.kind = "package" /\ t.name = n}
DepsOf(S) == {t.deps : t \in S}

(***************************************************************************)
(* C5.  When resolution is done, the members of the tool set that are      *)
(* packages of one name carry exactly the dependency tuples of the         *)
(* entries of that name the traversal went through, one member per         *)
(* distinct tuple: entries with the same tuple are one member, entries     *)
(* with different tuples are different members, and no tuple is a merge.   *)
(***************************************************************************)
C5_IdentityByNameAndDependencies ==
    Resolved
    => \A n \in {t.name : t \in tools \cup MetMembers} :
          /\ DepsOf(PackagesNamed(tools, n)) = DepsOf(PackagesNamed(MetMembers, n))
          /\ Cardinality(PackagesNamed(tools, n))
               = Cardinality(DepsOf(PackagesNamed(MetMembers, n)))

C5_Witness ==
    /\ Resolved /\ variant = "pkg"
    /\ config.tools = List(<<RawPackage("x", <<Str("d")>>)>>)
    /\ RawTable["a"] = List(<<RawPackage("x", <<Str("d")>>),
                             RawPackage("x", <<Str("e")>>)>>)
    /\ PackagesNamed(tools, "x")
         = {Package("x", <<"d">>), Package("x", <<"e">>)}

(***************************************************************************)
(* SpecIdem: the program is run on a request list, then again on the list  *)
(* of the same names in table order without repetition.                    *)
(***************************************************************************)
KeyOrder == <<"a", "b">>
InSet(S) == LET Test(name) == name \in S IN SelectSeq(KeyOrder, Test)

DanglingTables(v) ==
    {Dict([a |-> List(<<Str("x"), Ref(v, Missing)>>), b |-> List(<<Str("w")>>)]),
     Dict([a |-> List(<<Ref(v, "b")>>), b |-> List(<<Ref(v, Missing)>>)])}

IdemConfigs(v) ==
    [tools : {List(<<Str("y")>>)},
     groups : TablesAB(v, MaxLen) \cup DanglingTables(v)]

InitIdem ==
    Start(Runs("pkg", IdemConfigs("pkg")) \cup Runs("main", IdemConfigs("main")),
          {<<q, InSet(Range(q))>> : q \in SeqsUpTo(Keys, MaxReq)},
          {"install_group"}, {{}})

SpecIdem == InitIdem /\ [][NextTwice]_vars

(***************************************************************************)
(* C4.  Two request lists of the same existing names end the same way:     *)
(* both runs fail or neither does, and if neither the resolved sets are    *)
(* equal.  A repeated name is expanded once, and a run fails only on an    *)
(* include of a missing group.                                             *)
(***************************************************************************)
C4_SameNamesSameSet ==
    /\ NoRepeat(expanded)
    /\ Finished /\ ~HasDanglingInclude => err = "none"
    /\ (run = 2 /\ Finished)
       => /\ err = first_result.err
          /\ err = "none" => tools = first_result.tools

C4_Witness ==
    /\ run = 2 /\ pc = "done"
    /\ extras2 = <<"b", "a">> /\ extras = <<"a", "b">>
    /\ SkipCount >= 1
    /\ Cardinality(first_result.tools) = 3

====
